---- MODULE Spec2Model ----
(***************************************************************************)
(* MyVec<T> (src/lib.rs): a growable array that owns one raw allocation of *)
(* the global allocator.  The model keeps the three fields of the struct,  *)
(* a model of the global allocator's heap (one record per address) and,    *)
(* per public call, the requests the call sent to the allocator.           *)
(***************************************************************************)
EXTENDS Integers, Sequences, FiniteSets, TLC

\* ------------------------------------------------------------------ bounds
\* element values pushed by the environment are 1..NumValues
NumValues == 2
\* largest capacity explored by the general specification
MaxCap == 4
SmallBits == 3
\* largest `additional` handed to reserve, largest size_hint bound
MaxAdd == 3
\* longest item sequence handed to extend
MaxItems == 2
\* largest capacity explored, and longest history kept, while the history of
\* calls is recorded
TraceMaxCap == 8
MaxTrace == 7
\* model width of usize, in bits (the general specification stays far
\* below 2^WordBits, so no sum or product wraps there)
WordBits == 16
\* number of addresses the allocator hands out
NumBlocks == 2

Values == 1..NumValues

\* the element types explored: a zero-sized type and a 4-byte type
ElemTypes == { [size |-> 0, align |-> 1], [size |-> 4, align |-> 4] }

\* the element types explored with a small machine word: a zero-sized type
\* and a 1-byte type
ByteTypes == { [size |-> 0, align |-> 1], [size |-> 1, align |-> 1] }

\* ------------------------------------------------------------- raw pointers
\* a pointer is the null pointer, the dangling sentinel, or the address (>= 1)
\* of a block of the heap
Null == 0
Dangling == -1

\* Option<T>
None == [some |-> FALSE, val |-> 0]
Some(v) == [some |-> TRUE, val |-> v]
unwrap_or(o, d) == IF o.some THEN o.val ELSE d

\* one slot of a block: the bytes it holds (0: never written) and whether it
\* currently holds an initialized, not moved-out element
Uninit == [val |-> 0, init |-> FALSE]

VARIABLES
    size_of_T,    \* std::mem::size_of::<T>()
    align_of_T,   \* std::mem::align_of::<T>()
    word,         \* usize arithmetic is modulo `word`
    env,          \* what the caller explores: "any", "count" or "wrap"
    len,          \* MyVec::len
    capacity,     \* MyVec::capacity
    ptr,          \* MyVec::ptr
    heap,         \* the allocator's blocks, by id
    status,       \* "live", "dropped" (Drop::drop ran), "aborted" (handle_alloc_error)
    pc,           \* "idle", or "extend" inside the for loop of extend
    it,           \* the iterator extend is consuming
    op,           \* the public call made last
    ret,          \* what it returned
    calls,        \* the allocator requests it made
    ub,           \* kinds of undefined behaviour executed so far
    destructed,   \* indices of the elements Drop::drop destructed, in order
    trace         \* history of push / pop calls, when recorded

vars == << size_of_T, align_of_T, word, env, len, capacity, ptr, heap, status, pc, it,
           op, ret, calls, ub, destructed, trace >>

\* ---------------------------------------------------------- usize arithmetic
usize_add(a, b) == (a + b) % word
usize_sub(a, b) == (a - b) % word
usize_mul(a, b) == (a * b) % word

\* ------------------------------------------------------------------- heap
\* The global allocator hands out the addresses 1..NumBlocks; heap[a] is the
\* block at address a.  It places a new block at the lowest free address, so
\* a realloc always moves the block.
\* the number of element slots a block of `size` bytes holds
Slots(size) == IF size_of_T = 0 THEN 0 ELSE size \div size_of_T

Block(size, align, data) == [size |-> size, align |-> align, live |-> TRUE, data |-> data]
NoBlock == [size |-> 0, align |-> 0, live |-> FALSE, data |-> << >>]

IsLive(m, p) == p \in 1..NumBlocks /\ m.heap[p].live
LiveBlocks(h) == { p \in 1..NumBlocks : h[p].live }
FreeAddrs(h) == { p \in 1..NumBlocks : ~h[p].live }
Lowest(S) == CHOOSE p \in S : \A q \in S : p <= q

\* a request to the allocator: the pointer and layout passed, the new size
\* asked for, and the pointer returned
Call(fn, p, size, align, new_size, out) ==
    [fn |-> fn, ptr |-> p, size |-> size, align |-> align, new_size |-> new_size, out |-> out]

\* The vector, the heap and the effects of the call in progress, as one record.
\* `out` is the raw pointer the last allocator request returned.
Self ==
    [len |-> len, capacity |-> capacity, ptr |-> ptr, heap |-> heap, status |-> status,
     calls |-> calls, ub |-> ub, ret |-> ret, out |-> Null, destructed |-> destructed]

\* the record at the start of a public call
Entry == [Self EXCEPT !.calls = << >>, !.ret = None]

\* the record of the vector MyVec::new returns
Fresh ==
    [len |-> 0, capacity |-> 0, ptr |-> Dangling, heap |-> [a \in 1..NumBlocks |-> NoBlock],
     status |-> "live", calls |-> << >>, ub |-> {}, ret |-> None, out |-> Null,
     destructed |-> << >>]

\* std::alloc::alloc(layout); `ok` is the allocator's answer (FALSE: null).
\* A zero-sized layout is undefined behaviour: the request is still made, and
\* the allocator answers null or a pointer to a block of no bytes.
alloc(m, lay, ok) ==
    LET free == FreeAddrs(m.heap)
        out  == IF ok /\ free # {} THEN Lowest(free) ELSE Null
        m1   == [m EXCEPT !.calls = Append(@, Call("alloc", Null, lay.size, lay.align,
                                                   lay.size, out)),
                          !.ub = IF lay.size = 0 THEN @ \cup {"zero_size"} ELSE @,
                          !.out = out]
    IN  IF out # Null
        THEN [m1 EXCEPT !.heap[out] =
                            Block(lay.size, lay.align, [i \in 1..Slots(lay.size) |-> Uninit])]
        ELSE m1

\* std::alloc::realloc(p, layout, new_size): on success the old block is
\* released and a block of new_size bytes holding the old bytes (up to the
\* smaller size) is returned; on failure (null) the old block is untouched.
realloc(m, p, lay, new_size, ok) ==
    LET fit  == IsLive(m, p) /\ m.heap[p].size = lay.size /\ m.heap[p].align = lay.align
        old  == IF IsLive(m, p) THEN m.heap[p].data ELSE << >>
        free == FreeAddrs(m.heap)
        out  == IF ok /\ free # {} THEN Lowest(free) ELSE Null
        m1   == [m EXCEPT !.calls = Append(@, Call("realloc", p, lay.size, lay.align,
                                                   new_size, out)),
                          !.ub = (IF fit THEN @ ELSE @ \cup {"bad_handle"})
                                 \cup (IF new_size = 0 THEN {"zero_size"} ELSE {}),
                          !.out = out]
        new  == [i \in 1..Slots(new_size) |-> IF i <= Len(old) THEN old[i] ELSE Uninit]
        h1   == IF IsLive(m, p) THEN [m.heap EXCEPT ![p] = NoBlock] ELSE m.heap
    IN  IF out # Null
        THEN [m1 EXCEPT !.heap = [h1 EXCEPT ![out] = Block(new_size, lay.align, new)]]
        ELSE m1

\* std::alloc::dealloc(p, layout)
dealloc(m, p, lay) ==
    LET fit == IsLive(m, p) /\ m.heap[p].size = lay.size /\ m.heap[p].align = lay.align
    IN  [m EXCEPT !.calls = Append(@, Call("dealloc", p, lay.size, lay.align, 0, Null)),
                  !.ub = IF fit THEN @ ELSE @ \cup {"bad_handle"},
                  !.heap = IF IsLive(m, p) THEN [@ EXCEPT ![p] = NoBlock] ELSE @]

\* std::alloc::handle_alloc_error: the process aborts
handle_alloc_error(m, lay) == [m EXCEPT !.status = "aborted"]

\* write, had it left alone a slot that still holds the bytes of a value
\* moved out of it
write_skips_used(m, idx, value) ==
    IF size_of_T = 0 THEN m
    ELSE IF IsLive(m, m.ptr) /\ idx < Len(m.heap[m.ptr].data)
         THEN IF m.heap[m.ptr].data[idx + 1].val # 0
              THEN [m EXCEPT !.heap[m.ptr].data[idx + 1].init = TRUE]
              ELSE [m EXCEPT !.heap[m.ptr].data[idx + 1] = [val |-> value, init |-> TRUE]]
         ELSE [m EXCEPT !.ub = @ \cup {"bad_write"}]

\* ptr.add(idx).write(value): a write of a zero-sized value touches no memory
write(m, idx, value) ==
    IF size_of_T = 0 THEN m
    ELSE IF IsLive(m, m.ptr) /\ idx < Len(m.heap[m.ptr].data)
         THEN [m EXCEPT !.heap[m.ptr].data[idx + 1] = [val |-> value, init |-> TRUE]]
         ELSE [m EXCEPT !.ub = @ \cup {"bad_write"}]

\* ptr.add(idx).read(): moves the element out; the bytes stay in the slot.
\* A zero-sized type has the single value 1.
read(m, idx) ==
    IF size_of_T = 0 THEN [m EXCEPT !.ret = Some(1)]
    ELSE IF IsLive(m, m.ptr) /\ idx < Len(m.heap[m.ptr].data)
         THEN [m EXCEPT !.ret = Some(m.heap[m.ptr].data[idx + 1].val),
                        !.heap[m.ptr].data[idx + 1].init = FALSE,
                        !.ub = IF m.heap[m.ptr].data[idx + 1].init THEN @
                               ELSE @ \cup {"uninit_read"}]
         ELSE [m EXCEPT !.ret = Some(0), !.ub = @ \cup {"bad_read"}]

\* ------------------------------------------------------------------ MyVec
\* layout, had it been computed from len instead of capacity
layout_of_len(m) == [size |-> usize_mul(m.len, size_of_T), align |-> align_of_T]

\* MyVec::layout
layout(m) == [size |-> usize_mul(m.capacity, size_of_T), align |-> align_of_T]

\* realloc_with_capacity, had it not stored the pointer the allocator returned
realloc_with_capacity_keeps_ptr(m, cap, ok) ==
    LET new_size == usize_mul(cap, size_of_T)
        a == IF m.capacity = 0
             THEN alloc(m, [size |-> new_size, align |-> align_of_T], ok)
             ELSE realloc(m, m.ptr, layout(m), new_size, ok)
    IN  IF a.out = Null
        THEN handle_alloc_error(a, layout(a))
        ELSE [a EXCEPT !.capacity = cap]

\* realloc_with_capacity, had it requested a fresh allocation on every growth
realloc_with_capacity_fresh(m, cap, ok) ==
    LET a == alloc(m, [size |-> usize_mul(cap, size_of_T), align |-> align_of_T], ok)
    IN  IF a.out = Null
        THEN handle_alloc_error(a, layout(a))
        ELSE [a EXCEPT !.ptr = a.out, !.capacity = cap]

\* realloc_with_capacity, had it stored the new capacity before looking at
\* the allocator's answer
realloc_with_capacity_commits_early(m, cap, ok) ==
    LET new_size == usize_mul(cap, size_of_T)
        a == IF m.capacity = 0
             THEN alloc(m, [size |-> new_size, align |-> align_of_T], ok)
             ELSE realloc(m, m.ptr, layout(m), new_size, ok)
        c == [a EXCEPT !.capacity = cap]
    IN  IF a.out = Null
        THEN handle_alloc_error(c, layout(c))
        ELSE [c EXCEPT !.ptr = a.out]

\* MyVec::realloc_with_capacity
realloc_with_capacity(m, cap, ok) ==
    LET new_size == usize_mul(cap, size_of_T)
        a == IF m.capacity = 0
             THEN alloc(m, [size |-> new_size, align |-> align_of_T], ok)
             ELSE realloc(m, m.ptr, layout(m), new_size, ok)
    IN  IF a.out = Null
        THEN handle_alloc_error(a, layout(a))
        ELSE [a EXCEPT !.ptr = a.out, !.capacity = cap]

\* push, had it grown a full buffer by one slot instead of doubling it
push_grow_by_one(m, value, ok) ==
    LET g == IF m.capacity = 0 THEN realloc_with_capacity(m, 1, ok)
             ELSE IF m.capacity = m.len
                  THEN realloc_with_capacity(m, usize_add(m.capacity, 1), ok)
                  ELSE m
    IN  IF g.status = "aborted" THEN g
        ELSE [write(g, g.len, value) EXCEPT !.len = usize_add(g.len, 1)]

\* push, had it written every value to the first slot
push_writes_first(m, value, ok) ==
    LET g == IF m.capacity = 0 THEN realloc_with_capacity(m, 1, ok)
             ELSE IF m.capacity = m.len
                  THEN realloc_with_capacity(m, usize_mul(m.capacity, 2), ok)
                  ELSE m
    IN  IF g.status = "aborted" THEN g
        ELSE [write(g, 0, value) EXCEPT !.len = usize_add(g.len, 1)]

\* MyVec::push
push(m, value, ok) ==
    LET g == IF m.capacity = 0 THEN realloc_with_capacity(m, 1, ok)
             ELSE IF m.capacity = m.len
                  THEN realloc_with_capacity(m, usize_mul(m.capacity, 2), ok)
                  ELSE m
    IN  IF g.status = "aborted" THEN g
        ELSE [write(g, g.len, value) EXCEPT !.len = usize_add(g.len, 1)]

\* pop, had it read the first slot instead of the last
pop_front(m) ==
    IF m.len = 0 THEN [m EXCEPT !.ret = None]
    ELSE read([m EXCEPT !.len = usize_sub(m.len, 1)], 0)

\* pop, had it read the slot at the old len instead of the new one
pop_reads_at_len(m) ==
    IF m.len = 0 THEN [m EXCEPT !.ret = None]
    ELSE read([m EXCEPT !.len = usize_sub(m.len, 1)], m.len)

\* pop, had it given up the capacity beyond the remaining elements
pop_shrinks(m) ==
    IF m.len = 0 THEN [m EXCEPT !.ret = None]
    ELSE LET m1 == [m EXCEPT !.len = usize_sub(m.len, 1)]
         IN  [read(m1, m1.len) EXCEPT !.capacity = m1.len]

\* MyVec::pop
pop(m) ==
    IF m.len = 0 THEN [m EXCEPT !.ret = None]
    ELSE LET m1 == [m EXCEPT !.len = usize_sub(m.len, 1)]
         IN  read(m1, m1.len)

\* reserve, had it grown by doubling like push whenever doubling is enough
reserve_doubling(m, additional, ok) ==
    IF m.capacity < usize_add(m.len, additional)
    THEN realloc_with_capacity(m, IF usize_mul(m.capacity, 2) >= usize_add(m.len, additional)
                                  THEN usize_mul(m.capacity, 2)
                                  ELSE usize_add(m.len, additional), ok)
    ELSE m

\* reserve, had it grown to `additional` slots instead of len + additional
reserve_forgets_len(m, additional, ok) ==
    IF m.capacity < usize_add(m.len, additional)
    THEN realloc_with_capacity(m, additional, ok)
    ELSE m

\* MyVec::reserve
reserve(m, additional, ok) ==
    IF m.capacity < usize_add(m.len, additional)
    THEN realloc_with_capacity(m, usize_add(m.len, additional), ok)
    ELSE m

\* extend, had it reserved nothing when the size hint has no upper bound
extend_reserve_max_only(hint) == unwrap_or(hint.max, 0)

\* extend, had it reserved for the lower bound of the size hint
extend_reserve_min(hint) == hint.min

\* Extend::extend: let reserve = max.unwrap_or(min)
extend_reserve(hint) == unwrap_or(hint.max, hint.min)

\* a vector of the given live region and capacity, as push and reserve build
\* it: one live block of `cap` slots, no request in progress
VecOf(view, cap) ==
    [Fresh EXCEPT
        !.len = Len(view),
        !.capacity = cap,
        !.ptr = IF cap = 0 THEN Dangling ELSE 1,
        !.heap = [a \in 1..NumBlocks |->
                    IF a = 1 /\ cap > 0
                    THEN Block(cap * size_of_T, align_of_T,
                               [i \in 1..Slots(cap * size_of_T) |->
                                   IF i <= Len(view) THEN [val |-> view[i], init |-> TRUE]
                                   ELSE Uninit])
                    ELSE NoBlock]]

\* Extend::extend, the for loop run to its end with an allocator that never
\* fails: self.push(item) for each item in order
RECURSIVE push_each(_, _)
push_each(m, items) ==
    IF items = << >> THEN m
    ELSE push_each(push(m, Head(items), TRUE), Tail(items))

\* Extend::extend as one function of the vector, the size hint and the items
extend(m, hint, items) == push_each(reserve(m, extend_reserve(hint), TRUE), items)

\* FromIterator::from_iter
from_iter(hint, items) == extend(Fresh, hint, items)

\* Drop::drop: releases the block when capacity > 0; it destructs no element
drop(m) ==
    LET d == IF m.capacity > 0 THEN dealloc(m, m.ptr, layout(m)) ELSE m
    IN  [d EXCEPT !.status = "dropped"]

\* as_ref, had the slice covered the whole buffer instead of the live region
as_ref_whole_buffer(m) ==
    [i \in 1..m.capacity |->
        IF size_of_T = 0 THEN 1
        ELSE IF IsLive(m, m.ptr) /\ i <= Len(m.heap[m.ptr].data)
             THEN m.heap[m.ptr].data[i].val ELSE 0]

\* AsRef::as_ref: slice::from_raw_parts(ptr, len)
as_ref(m) ==
    [i \in 1..m.len |->
        IF size_of_T = 0 THEN 1
        ELSE IF IsLive(m, m.ptr) /\ i <= Len(m.heap[m.ptr].data)
             THEN m.heap[m.ptr].data[i].val ELSE 0]

\* Index::index, for an index inside the live region
index(m, i) == as_ref(m)[i + 1]

\* MyVec::len, MyVec::is_empty
is_empty(m) == m.len = 0

\* the comparison of two slices by == : equal lengths and equal elements
slice_eq(a, b) == Len(a) = Len(b) /\ \A i \in 1..Len(a) : a[i] = b[i]

\* the comparison of two slices by partial_cmp: the order of the elements at
\* the first position where they differ, else the order of the lengths
slice_partial_cmp(a, b) ==
    LET l == IF Len(a) < Len(b) THEN Len(a) ELSE Len(b)
        d == { i \in 1..l : a[i] # b[i] }
    IN  IF d # {}
        THEN Some(IF a[Lowest(d)] < b[Lowest(d)] THEN "Less" ELSE "Greater")
        ELSE Some(IF Len(a) < Len(b) THEN "Less"
                  ELSE IF Len(a) > Len(b) THEN "Greater" ELSE "Equal")

\* PartialEq::eq against a slice-like value: self.as_ref() == other.as_ref()
eq(m, other) == slice_eq(as_ref(m), other)

\* PartialOrd::partial_cmp against a slice-like value
partial_cmp(m, other) == slice_partial_cmp(as_ref(m), other)

\* --------------------------------------------------------------- actions
Install(m) ==
    /\ len' = m.len
    /\ capacity' = m.capacity
    /\ ptr' = m.ptr
    /\ heap' = m.heap
    /\ status' = m.status
    /\ calls' = m.calls
    /\ ub' = m.ub
    /\ ret' = m.ret
    /\ destructed' = m.destructed

Op(name, arg) == [name |-> name, arg |-> arg]
\* the iterator of the extend in progress: its size hint, the items it has
\* yielded, and the slice view and capacity of the vector as extend was entered
NoIter == [min |-> 0, max |-> None, taken |-> << >>, base |-> << >>, cap |-> 0]

\* The history of calls is recorded from new() on, for as long as it consists
\* of at most MaxTrace calls: pushes, followed by pops.
TraceOff == [on |-> FALSE, ev |-> << >>]
Record(name, r) ==
    IF /\ trace.on
       /\ Len(trace.ev) < MaxTrace
       /\ ~(name = "push" /\ trace.ev # << >> /\ trace.ev[Len(trace.ev)].op = "pop")
    THEN [trace EXCEPT !.ev = Append(@, [op |-> name, ret |-> r])]
    ELSE TraceOff
\* the capacity bound of the exploration: larger while the history is recorded
CapBound == IF trace.on THEN TraceMaxCap ELSE MaxCap

\* the values of type T the caller passes: any of them, or, for the caller
\* that counts (env = "count"), the position the value will take, so that
\* pushes onto a new vector carry 1, 2, 3, ...
ValuesOfT ==
    IF size_of_T = 0 THEN {1}
    ELSE IF env = "count" THEN {len + 1}
    ELSE Values

\* The allocator's possible answers to a call: it is asked only when the call
\* grows the buffer, and then it may answer null.
PushGrows(m) == m.capacity = 0 \/ m.capacity = m.len
ReserveGrows(m, additional) == m.capacity < usize_add(m.len, additional)
Answers(asked) == IF asked THEN BOOLEAN ELSE {TRUE}

\* Iterator::size_hint: (min, None), or (min, Some(max)), where extend reads
\* min only when max is None
SizeHints ==
    { [min |-> a, max |-> None] : a \in 0..MaxAdd } \cup
    { [min |-> 0, max |-> Some(u)] : u \in 0..MaxAdd }

\* the arguments of reserve: small ones, or, with a small machine word
\* (env = "wrap"), every usize
Additionals == IF env = "wrap" THEN 0..(word - 1) ELSE 0..MaxAdd

Idle == status = "live" /\ pc = "idle"

\* MyVec::new
new ==
    /\ len = 0
    /\ capacity = 0
    /\ ptr = Dangling
    /\ heap = [a \in 1..NumBlocks |-> NoBlock]
    /\ status = "live"
    /\ pc = "idle"
    /\ it = NoIter
    /\ op = Op("new", 0)
    /\ ret = None
    /\ calls = << >>
    /\ ub = {}
    /\ destructed = << >>

Push ==
    /\ Idle
    /\ \E value \in ValuesOfT, ok \in Answers(PushGrows(Self)) :
         LET m == push(Entry, value, ok) IN
         /\ Install(m)
         /\ op' = Op("push", value)
         /\ trace' = Record("push", Some(value))
    /\ it' = NoIter
    /\ UNCHANGED << size_of_T, align_of_T, word, env, pc >>

Pop ==
    /\ Idle
    /\ LET m == pop(Entry) IN
         /\ Install(m)
         /\ op' = Op("pop", 0)
         /\ trace' = Record("pop", m.ret)
    /\ it' = NoIter
    /\ UNCHANGED << size_of_T, align_of_T, word, env, pc >>

Reserve ==
    /\ Idle
    /\ \E additional \in Additionals :
        \E ok \in Answers(ReserveGrows(Self, additional)) :
         /\ Install(reserve(Entry, additional, ok))
         /\ op' = Op("reserve", additional)
    /\ it' = NoIter
    /\ trace' = TraceOff
    /\ UNCHANGED << size_of_T, align_of_T, word, env, pc >>

\* Extend::extend up to the for loop: size_hint, then reserve
ExtendBegin ==
    /\ Idle
    /\ \E hint \in SizeHints :
         \E ok \in Answers(ReserveGrows(Self, extend_reserve(hint))) :
            LET m == reserve(Entry, extend_reserve(hint), ok) IN
            /\ Install(m)
            /\ it' = [min |-> hint.min, max |-> hint.max, taken |-> << >>,
                      base |-> as_ref(Self), cap |-> capacity]
            /\ pc' = IF m.status = "live" THEN "extend" ELSE "idle"
    /\ op' = Op("extend", 0)
    /\ trace' = TraceOff
    /\ UNCHANGED << size_of_T, align_of_T, word, env >>

\* FromIterator::from_iter up to the for loop of extend: MyVec::new, then
\* size_hint and reserve on the new vector
FromIter ==
    /\ Idle /\ op.name = "new"
    /\ \E hint \in SizeHints :
         \E ok \in Answers(ReserveGrows(Fresh, extend_reserve(hint))) :
            LET m == reserve(Fresh, extend_reserve(hint), ok) IN
            /\ Install(m)
            /\ it' = [min |-> hint.min, max |-> hint.max, taken |-> << >>,
                      base |-> as_ref(Fresh), cap |-> Fresh.capacity]
            /\ pc' = IF m.status = "live" THEN "extend" ELSE "idle"
    /\ op' = Op("from_iter", 0)
    /\ trace' = TraceOff
    /\ UNCHANGED << size_of_T, align_of_T, word, env >>

\* one iteration of the for loop of extend: the iterator yields an item,
\* self.push(item)
ExtendPush ==
    /\ status = "live" /\ pc = "extend"
    /\ Len(it.taken) < MaxItems
    /\ \E item \in ValuesOfT, ok \in Answers(PushGrows(Self)) :
         LET m == push(Self, item, ok) IN
         /\ Install(m)
         /\ pc' = IF m.status = "live" THEN "extend" ELSE "idle"
         /\ it' = [it EXCEPT !.taken = Append(@, item)]
    /\ UNCHANGED << size_of_T, align_of_T, word, env, op, trace >>

\* the iterator is exhausted: extend returns
ExtendReturn ==
    /\ status = "live" /\ pc = "extend"
    /\ pc' = "idle"
    /\ it' = NoIter
    /\ UNCHANGED << size_of_T, align_of_T, word, env, len, capacity, ptr, heap, status,
                    op, ret, calls, ub, destructed, trace >>

\* the owner goes out of scope: Drop::drop
Drop ==
    /\ Idle
    /\ Install(drop(Entry))
    /\ op' = Op("drop", 0)
    /\ it' = NoIter
    /\ trace' = TraceOff
    /\ UNCHANGED << size_of_T, align_of_T, word, env, pc >>

Init ==
    /\ \E t \in ElemTypes : size_of_T = t.size /\ align_of_T = t.align
    /\ word = 2 ^ WordBits
    /\ env = "any"
    /\ new
    /\ trace = [on |-> TRUE, ev |-> << >>]

Next ==
    \/ Push /\ capacity' <= CapBound'
    \/ Pop
    \/ Reserve /\ capacity' <= CapBound'
    \/ ExtendBegin /\ capacity' <= CapBound'
    \/ FromIter /\ capacity' <= CapBound'
    \/ ExtendPush /\ capacity' <= CapBound'
    \/ ExtendReturn
    \/ Drop

\* every interleaving of the public calls on one vector
Spec == Init /\ [][Next]_vars

\* the same calls made by the caller that counts
InitD ==
    /\ \E t \in ElemTypes : size_of_T = t.size /\ align_of_T = t.align
    /\ word = 2 ^ WordBits
    /\ env = "count"
    /\ new
    /\ trace = [on |-> TRUE, ev |-> << >>]

SpecD == InitD /\ [][Next]_vars

\* the same calls on a machine whose usize has SmallBits bits, with every
\* usize as the argument of reserve
InitWrap ==
    /\ \E t \in ByteTypes : size_of_T = t.size /\ align_of_T = t.align
    /\ word = 2 ^ SmallBits
    /\ env = "wrap"
    /\ new
    /\ trace = TraceOff

SpecWrap == InitWrap /\ [][Next]_vars

\* ================================================================ claims
\* the recorded history, and what the claims read from it
Ev == trace.ev
\* the number of pushes the recorded history starts with
Pushes ==
    CHOOSE n \in 0..Len(Ev) :
        /\ \A i \in 1..n : Ev[i].op = "push"
        /\ n = Len(Ev) \/ Ev[n + 1].op = "pop"
\* the value of the i-th push of the recorded history
Pushed(i) == Ev[i].ret.val
\* the vector is alive and its history from new() is recorded
Recorded == trace.on /\ status = "live"

\* C1: after pushes of v1..vn onto a new vector, the j-th consecutive pop
\* returns v(n-j+1) for j <= n, and None for every j > n.
C1_PopsReversePushes ==
    trace.on =>
        \A j \in 1..(Len(Ev) - Pushes) :
            Ev[Pushes + j].ret = IF j <= Pushes THEN Some(Pushed(Pushes - j + 1)) ELSE None

\* three pushes, the first two of different values, then four pops
C1_Witness ==
    /\ Recorded /\ size_of_T > 0
    /\ Pushes = 3 /\ Len(Ev) = 7
    /\ Pushed(1) # Pushed(2)
    /\ ret = None /\ op.name = "pop"

\* C2: after n pushes onto a new vector len = n, index(i) is the i-th pushed
\* value for every i < n, and the slice view is the pushed values in push
\* order; this holds after every push, so across every growth step.
C2_PushesReadBack ==
    (Recorded /\ Pushes = Len(Ev)) =>
        /\ len = Len(Ev)
        /\ \A i \in 0..(Len(Ev) - 1) : index(Self, i) = Pushed(i + 1)
        /\ as_ref(Self) = [i \in 1..Len(Ev) |-> Pushed(i)]

\* five pushes, so three growth steps by realloc, of values that are not all equal
C2_Witness ==
    /\ Recorded /\ size_of_T > 0
    /\ Pushes = 5 /\ Len(Ev) = 5
    /\ Pushed(1) # Pushed(2) /\ Pushed(4) # Pushed(5)
    /\ len = 5 /\ capacity = 8

\* a step that is a push that returned: a call of push, or an iteration of
\* the loop of extend
PushReturned ==
    /\ status' = "live"
    /\ len' # len
    /\ op'.name = "push" \/ (pc = "extend" /\ pc' = "extend")

\* C3: a push at capacity 0 sets capacity to 1, a push at len = capacity > 0
\* doubles it, a push at len < capacity leaves it; five pushes onto a new
\* vector see the capacities 1, 2, 4, 4, 8; no step decreases capacity.
C3_CapacityPolicy ==
    /\ [][ /\ PushReturned =>
                capacity' = IF capacity = 0 THEN 1
                            ELSE IF len = capacity THEN 2 * capacity
                            ELSE capacity
           /\ capacity' >= capacity ]_vars
    /\ [](\A k \in 1..5 :
            (Recorded /\ Pushes = Len(Ev) /\ Len(Ev) = k) => capacity = << 1, 2, 4, 4, 8 >>[k])

\* the fifth push onto a new vector has just doubled the capacity from 4
C3_Witness ==
    /\ Recorded /\ Pushes = 5 /\ Len(Ev) = 5
    /\ capacity = 8 /\ len = 5
    /\ Len(calls) = 1 /\ calls[1].fn = "realloc"

\* C4: len <= capacity in every state reachable from new() by push, pop,
\* reserve and extend.
C4_LenWithinCapacity == len <= capacity

\* a buffer that reserve sized and pushes have filled to the last slot
C4_Witness ==
    /\ status = "live" /\ len = capacity /\ capacity = 3
    /\ op.name = "push"

\* C5: when the vector is destroyed with len > 0, Drop destructs the elements
\* at indices 0, 1, ..., len-1, each once and in this order (before the
\* allocation is released).
C5_DropDestructsElements ==
    (status = "dropped" /\ len > 0) => destructed = [i \in 1..len |-> i - 1]

\* C6: for a non-zero-sized T, destroying the vector makes exactly one dealloc
\* call when capacity > 0, for the stored pointer, with the layout
\* (capacity * size_of T, align_of T), which is the layout the live block was
\* last allocated or reallocated with (dealloc marks any other layout, and any
\* pointer that is not a live block, as "bad_handle"); it makes no call when
\* capacity = 0; afterwards no block is live.
C6_DropReleasesOnce ==
    (size_of_T > 0 /\ status = "dropped") =>
        /\ calls = IF capacity > 0
                   THEN << Call("dealloc", ptr, capacity * size_of_T, align_of_T, 0, Null) >>
                   ELSE << >>
        /\ LiveBlocks(heap) = {}
        /\ "bad_handle" \notin ub

\* destroyed with one element in a buffer that reserve sized to three slots
C6_Witness ==
    /\ size_of_T > 0 /\ status = "dropped"
    /\ capacity = 3 /\ len = 1
    /\ Len(calls) = 1

\* the last request the step sent to the allocator
LastCall == calls'[Len(calls')]

\* C7: for a non-zero-sized T, while the vector exists: capacity = 0 exactly
\* when the pointer is the dangling sentinel and no block is live; when
\* capacity > 0 the stored pointer is the one live block, sized for exactly
\* capacity slots; no access or request ever names a pointer that is not a
\* live block.  A growth step sends one request, alloc at capacity 0 and
\* realloc of the stored pointer otherwise, stores the pointer returned and
\* the new capacity, and leaves the previous block released.
C7_Ownership ==
    /\ []((size_of_T > 0 /\ status # "dropped") =>
            /\ capacity = 0 <=> ptr = Dangling
            /\ LiveBlocks(heap) = IF capacity = 0 THEN {} ELSE {ptr}
            /\ capacity > 0 =>
                 /\ heap[ptr].size = capacity * size_of_T
                 /\ heap[ptr].align = align_of_T
                 /\ Len(heap[ptr].data) = capacity
            /\ ub = {})
    /\ [][(size_of_T > 0 /\ capacity' # capacity) =>
            /\ calls' # << >>
            /\ LastCall =
                 IF capacity = 0
                 THEN Call("alloc", Null, capacity' * size_of_T, align_of_T,
                           capacity' * size_of_T, ptr')
                 ELSE Call("realloc", ptr, capacity * size_of_T, align_of_T,
                           capacity' * size_of_T, ptr')
            /\ Len(calls') = IF pc = "extend" THEN Len(calls) + 1 ELSE 1
            /\ heap'[ptr'].live
            /\ (capacity > 0 /\ ptr # ptr') => ~heap'[ptr].live ]_vars

\* two elements in a block that a realloc has just grown from one slot
C7_Witness ==
    /\ size_of_T > 0 /\ status = "live"
    /\ capacity = 2 /\ len = 2
    /\ Len(calls) = 1 /\ calls[1].fn = "realloc" /\ calls[1].out = ptr

\* C8: for a zero-sized T no call ever sends an alloc, realloc or dealloc
\* request to the allocator.
C8_ZstNoAllocatorCalls == size_of_T = 0 => calls = << >>

\* C9: a reserve(additional) that returns sets capacity to len + additional
\* exactly when capacity < len + additional, and otherwise leaves capacity
\* and sends the allocator nothing; len and the live region are unchanged.
C9_ReserveExact ==
    [][(op'.name = "reserve" /\ status' = "live") =>
         /\ capacity' = IF capacity < len + op'.arg THEN len + op'.arg ELSE capacity
         /\ capacity >= len + op'.arg => calls' = << >>
         /\ len' = len
         /\ as_ref(Self)' = as_ref(Self) ]_vars

\* reserve(2) on a full one-slot buffer: three slots, not two
C9_Witness ==
    /\ size_of_T > 0 /\ status = "live"
    /\ op = Op("reserve", 2) /\ len = 1 /\ capacity = 3
    /\ Len(calls) = 1 /\ calls[1].fn = "realloc"

\* the alloc and realloc requests of the call in progress
Growths == { i \in 1..Len(calls) : calls[i].fn \in {"alloc", "realloc"} }

\* C10: extend over an iterator whose size hint has the upper bound u: before
\* the first item is pushed, capacity >= len + u; while the iterator has
\* yielded at most u items the whole call has sent at most one alloc or
\* realloc request, the slice view is the old view followed by the items
\* yielded, in order, and len grew by their number; returning changes none
\* of this.
C10_ExtendReservesUpFront ==
    /\ []((pc = "extend" /\ it.max.some) =>
            /\ it.taken = << >> => capacity >= len + it.max.val
            /\ Len(it.taken) <= it.max.val =>
                 /\ Cardinality(Growths) <= 1
                 /\ as_ref(Self) = it.base \o it.taken
                 /\ len = Len(it.base) + Len(it.taken))
    /\ [][(pc = "extend" /\ pc' = "idle" /\ status' = "live") =>
            /\ as_ref(Self)' = as_ref(Self)
            /\ len' = len /\ capacity' = capacity /\ calls' = calls ]_vars

\* extend of two items with upper bound 2 onto a full one-slot vector
C10_Witness ==
    /\ size_of_T > 0 /\ pc = "extend"
    /\ it.max = Some(2) /\ Len(it.taken) = 2 /\ Len(it.base) = 1
    /\ it.taken[1] # it.taken[2]
    /\ capacity = 3 /\ Len(calls) = 1

\* the vector as the extend in progress was entered
Start == VecOf(it.base, it.cap)
\* an extend is in progress over an iterator that reports no upper bound
NoBound == pc = "extend" /\ ~it.max.some

\* C11 as claimed: extend over an iterator without upper bound reserves
\* nothing up front, and its len, capacity and contents are those of pushing
\* the same items one at a time onto the vector as it was.
C11_NoBoundIsPlainPush ==
    NoBound =>
        LET p == push_each(Start, it.taken) IN
        /\ it.taken = << >> => capacity = it.cap
        /\ len = p.len /\ capacity = p.capacity /\ as_ref(Self) = as_ref(p)

\* C11 as amended: extend over an iterator without upper bound first
\* reserves the lower bound min of the size hint (capacity becomes len + min
\* when it was smaller), then pushes; its len and contents are those of
\* pushing the same items one at a time, its capacity is that of reserve(min)
\* followed by these pushes, which is the capacity of the pushes alone when
\* min = 0.  (The step that returns from extend changes neither, see C10.)
C11_NoBoundReservesMin ==
    NoBound =>
        LET p == push_each(Start, it.taken)
            r == push_each(reserve(Start, it.min, TRUE), it.taken)
        IN  /\ it.taken = << >> =>
                 capacity = IF it.cap < Len(it.base) + it.min
                            THEN Len(it.base) + it.min ELSE it.cap
            /\ len = p.len /\ as_ref(Self) = as_ref(p)
            /\ capacity = r.capacity
            /\ it.min = 0 => capacity = p.capacity

\* two items from an iterator with hint (2, None) onto a full one-slot
\* vector: capacity 3, where two plain pushes give 4
C11_Witness ==
    /\ NoBound /\ size_of_T > 0
    /\ it.min = 2 /\ Len(it.taken) = 2 /\ it.taken[1] # it.taken[2]
    /\ Len(it.base) = 1 /\ it.cap = 1
    /\ capacity = 3

\* the size hint of the iterator of the extend in progress
Hint == [min |-> it.min, max |-> it.max]
\* from_iter is in progress, or has just returned
FromIterRuns == op.name = "from_iter" /\ status = "live"

\* C12: from_iter over a sequence s yields a vector whose slice view is s,
\* element for element in order, whose len is the length of s and which
\* compares equal to s; its state is that of new() followed by extend(s).
\* This holds after every item of s, and the return changes nothing.
C12_FromIterRoundTrip ==
    /\ [](( FromIterRuns /\ pc = "extend") =>
            LET e == extend(Fresh, Hint, it.taken) IN
            /\ as_ref(Self) = it.taken
            /\ len = Len(it.taken)
            /\ eq(Self, it.taken)
            /\ \A other \in UNION { [1..n -> Values] : n \in 0..MaxItems } :
                 eq(Self, other) <=> other = it.taken
            /\ len = e.len /\ capacity = e.capacity /\ ptr = e.ptr /\ heap = e.heap)
    /\ [][(FromIterRuns /\ pc = "extend" /\ pc' = "idle" /\ status' = "live") =>
            /\ as_ref(Self)' = it.taken /\ len' = Len(it.taken)
            /\ UNCHANGED << len, capacity, ptr, heap >>]_vars

\* from_iter over two different items has returned
C12_Witness ==
    /\ FromIterRuns /\ pc = "idle" /\ size_of_T > 0
    /\ len = 2 /\ as_ref(Self)[1] # as_ref(Self)[2]

\* a step that is a call of pop
PopStep == Idle /\ op'.name = "pop"

\* C13: pop at len = 0 returns None and leaves len, capacity and the buffer
\* pointer unchanged (on a new vector capacity stays 0 and is_empty() stays
\* true); pop at len > 0 returns an element, decrements len by exactly 1 and
\* leaves capacity and the buffer pointer unchanged; pop makes no allocator
\* request, so no pop reduces capacity.
C13_PopFrame ==
    [][PopStep =>
        /\ len = 0 => /\ ret' = None
                      /\ UNCHANGED << len, capacity, ptr >>
                      /\ is_empty(Self)'
        /\ (len = 0 /\ op.name = "new") => capacity' = 0
        /\ len > 0 => /\ ret'.some
                      /\ len' = len - 1
                      /\ UNCHANGED << capacity, ptr >>
        /\ calls' = << >>
        /\ status' = "live"]_vars

\* three pushes and four pops of a new vector: the last pop found it empty,
\* and the capacity is still 4
C13_Witness ==
    /\ Recorded /\ Pushes = 3 /\ Len(Ev) = 7
    /\ op.name = "pop" /\ ret = None /\ len = 0 /\ capacity = 4 /\ ptr # Dangling

\* push of 1, 2, 3, 4, 5 onto a new vector of a non-zero-sized type, then
\* two pops
ScenarioD ==
    /\ Recorded /\ size_of_T > 0
    /\ Pushes = 5 /\ Len(Ev) = 7
    /\ \A i \in 1..5 : Pushed(i) = i

\* C14 as claimed: after scenario D the slice view is [1, 2, 3], len is 3 and
\* capacity is 4.
C14_ScenarioDCapacity4 ==
    ScenarioD => as_ref(Self) = << 1, 2, 3 >> /\ len = 3 /\ capacity = 4

\* C14 as amended: after scenario D the slice view is [1, 2, 3], len is 3 and
\* capacity is 8, the capacity the fifth push doubled to and the two pops
\* (which returned 5, then 4) left unchanged.
C14_ScenarioDCapacity8 ==
    ScenarioD =>
        /\ as_ref(Self) = << 1, 2, 3 >> /\ len = 3 /\ capacity = 8
        /\ Ev[6].ret = Some(5) /\ Ev[7].ret = Some(4)

\* scenario D has run
C14_Witness == ScenarioD /\ op.name = "pop" /\ ret = Some(4) /\ len = 3

\* the sequence the recorded history has built: the pushed values that no pop
\* has taken
Built == [i \in 1..(IF Len(Ev) - Pushes < Pushes THEN 2 * Pushes - Len(Ev) ELSE 0) |-> Pushed(i)]
\* the sequences of at most MaxItems values of T
SmallSeqs == UNION { [1..n -> IF size_of_T = 0 THEN {1} ELSE Values] : n \in 0..MaxItems }
\* vectors built from the sequence s: by pushes, by pushes into a larger
\* reserved buffer, and by pushes and a pop that leaves a value in a slot
\* beyond len
VecsBuiltFrom(s) ==
    { push_each(Fresh, s),
      push_each(reserve(Fresh, Len(s) + 1, TRUE), s),
      pop(push(push_each(Fresh, s), 1, TRUE)) }
\* the lexicographic order of two sequences
RECURSIVE Lex(_, _)
Lex(a, b) ==
    IF a = << >> /\ b = << >> THEN "Equal"
    ELSE IF a = << >> THEN "Less"
    ELSE IF b = << >> THEN "Greater"
    ELSE IF Head(a) < Head(b) THEN "Less"
    ELSE IF Head(a) > Head(b) THEN "Greater"
    ELSE Lex(Tail(a), Tail(b))

\* C15: eq and partial_cmp of a vector against a slice-like value are the
\* equality and the lexicographic order of the sequence the vector was built
\* from and the sequence of that value: against every small slice, and against
\* the vectors built from the same sequence, from a longer one and from a
\* shifted one, whatever their capacity and whatever earlier pops left in the
\* slots [len, capacity) of either vector.
C15_CompareLiveRegions ==
    Recorded =>
        /\ \A s \in SmallSeqs :
              /\ eq(Self, s) <=> Built = s
              /\ partial_cmp(Self, s) = Some(Lex(Built, s))
        /\ \A s \in { Built, Append(Built, 1), SubSeq(Built, 2, Len(Built)) } :
              \A o \in VecsBuiltFrom(s) :
                 LET other == as_ref(o) IN
                 /\ eq(Self, other) <=> Built = s
                 /\ partial_cmp(Self, other) = Some(Lex(Built, s))

\* three pushes and two pops have left two values in the slots beyond len,
\* the nearer one different from the live element
C15_Witness ==
    /\ Recorded /\ size_of_T > 0
    /\ Pushes = 3 /\ Len(Ev) = 5
    /\ len = 1 /\ capacity = 4
    /\ heap[ptr].data[2].val # heap[ptr].data[1].val
    /\ eq(Self, << Pushed(1) >>)
    /\ partial_cmp(Self, << Pushed(1), Pushed(2) >>) = Some("Less")

\* the abstract sequence of the vector: its live region
Abs == as_ref(Self)
\* a step of the loop of extend that pushed an item
LoopPushStep == pc = "extend" /\ pc' = "extend" /\ len' # len

\* C16: the live region [0, len) is an abstract sequence that every push (a
\* call of push or an iteration of extend) appends its value to, every pop
\* removes the last element from and returns it (None, and no change, when it
\* is empty), and reserve and the reservation of extend leave unchanged; so a
\* push after a pop puts its value into the vacated slot, as the last element
\* of the view.
C16_StackRefinement ==
    [][ status' = "live" =>
        /\ (Idle /\ op'.name = "push") =>
              /\ Abs' = Append(Abs, op'.arg)
              /\ Abs'[len'] = op'.arg /\ len' = len + 1
        /\ LoopPushStep => Abs' = Append(Abs, it'.taken[Len(it'.taken)])
        /\ PopStep =>
              IF Abs = << >>
              THEN ret' = None /\ Abs' = << >>
              ELSE ret' = Some(Abs[Len(Abs)]) /\ Abs' = SubSeq(Abs, 1, Len(Abs) - 1)
        /\ (Idle /\ op'.name \in {"reserve", "extend", "from_iter"}) => Abs' = Abs
        /\ (pc = "extend" /\ pc' = "idle") => Abs' = Abs
      ]_vars

\* a push has put its value into a slot that pops had vacated: the slot after
\* it still holds the bytes of a popped value
C16_Witness ==
    /\ status = "live" /\ size_of_T > 0 /\ op.name = "push"
    /\ len = 2 /\ capacity = 4
    /\ heap[ptr].data[3].val # 0 /\ ~heap[ptr].data[3].init
    /\ heap[ptr].data[2].val = op.arg /\ heap[ptr].data[3].val # op.arg
    /\ Abs = << heap[ptr].data[1].val, op.arg >>

\* the slots of the buffer of a vector of a non-zero-sized type
Data == IF capacity > 0 /\ IsLive(Self, ptr) THEN heap[ptr].data ELSE << >>

\* C17: in every state of a live vector the slots [0, len) hold values a push
\* wrote and no pop moved out, and the slots [len, capacity) hold none; no
\* call reads or writes outside the buffer or reads a slot that holds no
\* value, and Drop destructs no slot; the slice view covers exactly [0, len);
\* pop reads the slot at index len - 1 of its pre-state and touches no other;
\* push writes the slot at index len, which is below the capacity after any
\* growth, and touches no other.
C17_SlotsInitialised ==
    /\ [](ub \cap {"bad_write", "bad_read", "uninit_read"} = {})
    /\ [](destructed = << >>)
    /\ []((status = "live") => DOMAIN Abs = 1..len)
    /\ []((status = "live" /\ size_of_T > 0) =>
            /\ Len(Data) = capacity
            /\ \A i \in 1..capacity : Data[i].init <=> i <= len)
    /\ [][ (status' = "live" /\ size_of_T > 0) =>
            /\ (PopStep /\ len > 0) =>
                  /\ ret' = Some(Data[len].val)
                  /\ Data' = [Data EXCEPT ![len].init = FALSE]
            /\ ((Idle /\ op'.name = "push") \/ LoopPushStep) =>
                  /\ len + 1 <= capacity'
                  /\ Data'[len + 1].init
                  /\ \A i \in 1..capacity' :
                        i # len + 1 =>
                            Data'[i] = IF i <= Len(Data) THEN Data[i] ELSE Uninit
          ]_vars

\* a pop has moved the last of three values out of a four-slot buffer, and
\* the slot still holds its bytes
C17_Witness ==
    /\ status = "live" /\ size_of_T > 0 /\ op.name = "pop"
    /\ len = 2 /\ capacity = 4
    /\ ret = Some(Data[3].val) /\ ~Data[3].init /\ Data[3].val # 0
    /\ Data[1].init /\ Data[2].init /\ Data[4] = Uninit

\* C18: when the allocator answers null to the growth request of a push, of
\* a reserve or of extend, the call aborts the process there: it has made this
\* one request and no other (after the requests that earlier iterations of
\* extend were granted), len, capacity, the buffer pointer and the buffer
\* are as before the call (the element is not written), and no step follows.
C18_AllocFailureAborts ==
    /\ [][ (status' = "aborted" /\ status = "live") =>
            /\ calls' # << >>
            /\ LastCall.fn \in {"alloc", "realloc"} /\ LastCall.out = Null
            /\ calls' = Append(IF pc = "extend" THEN calls ELSE << >>, LastCall)
            /\ UNCHANGED << len, capacity, ptr, heap >>
          ]_vars
    /\ [][ status # "aborted" ]_vars
    /\ [][ status' = "live" =>
             \A i \in 1..Len(calls') : calls'[i].out # Null ]_vars

\* the push onto a full two-slot buffer has aborted on the null answer to its
\* realloc
C18_Witness ==
    /\ status = "aborted" /\ size_of_T > 0 /\ op.name = "push"
    /\ len = 2 /\ capacity = 2 /\ IsLive(Self, ptr) /\ Len(heap[ptr].data) = 2
    /\ Len(calls) = 1 /\ calls[1].fn = "realloc" /\ calls[1].out = Null
    /\ heap[ptr].data[1].init /\ heap[ptr].data[2].init

\* C19: with usize arithmetic wrapping modulo 2^w, whenever reserve(additional)
\* returns, capacity >= len + additional as a sum of unbounded integers, for
\* every len and every additional of the usize range; and a push never ends
\* with a smaller capacity than it started with (capacity * 2 does not wrap).
C19_NoWrapInGrowth ==
    [][ status' = "live" =>
        /\ (Idle /\ op'.name = "reserve") => capacity' >= len + op'.arg
        /\ ((Idle /\ op'.name = "push") \/ LoopPushStep) => capacity' >= capacity
      ]_vars
====
